---------------------------- MODULE Spec2Model ----------------------------
(***************************************************************************)
(* Model of parse_errors.py: the filter that reads newline-delimited JSON  *)
(* compiler records from standard input, keeps the "error" and "warning"   *)
(* diagnostics that carry a location, and prints them, deduplicated and    *)
(* sorted, under two headers.                                              *)
(*                                                                         *)
(* Text (input payloads, formatted entries, output lines) is a sequence of *)
(* code points, so that concatenation and Python's lexicographic string    *)
(* order are computed and not assumed.  Dictionary keys are only ever      *)
(* compared for equality and are TLA+ strings.                             *)
(***************************************************************************)
EXTENDS Integers, Sequences, FiniteSets, TLC

\* Longest input (number of lines on standard input) that is explored.
MaxLines == 3

-----------------------------------------------------------------------------
(* String literals of the program, as code points.                         *)

S_error            == <<101, 114, 114, 111, 114>>
S_warning          == <<119, 97, 114, 110, 105, 110, 103>>
S_unknown          == <<117, 110, 107, 110, 111, 119, 110>>
S_compiler_message == <<99, 111, 109, 112, 105, 108, 101, 114, 45,
                        109, 101, 115, 115, 97, 103, 101>>
S_empty            == <<>>
ErrorsHeader       == <<61, 61, 61, 32, 69, 82, 82, 79, 82, 83, 32, 61, 61, 61>>
WarningsHeader     == <<61, 61, 61, 32, 87, 65, 82, 78, 73, 78, 71, 83,
                        32, 61, 61, 61>>

-----------------------------------------------------------------------------
(* Python values as json.loads builds them: a tag and a payload.           *)

PyStr(s)   == <<"str", s>>
PyInt(n)   == <<"int", n>>
PyBool(b)  == <<"bool", b>>
PyNone     == <<"none">>
PyList(xs) == <<"list", xs>>
PyDict(f)  == <<"dict", f>>
EmptyDict  == PyDict([k \in {} |-> PyNone])

TypeOf(v) == v[1]

\* == between two values of the kinds a lookup is compared with (strings).
PyEq(a, b) == TypeOf(a) = TypeOf(b) /\ a = b

\* Only a dict has a .get method: on any other value the attribute lookup
\* raises AttributeError.
HasGet(v) == TypeOf(v) = "dict"

\* d.get(k, default) on a dict d.
Get(d, k, default) == IF k \in DOMAIN d[2] THEN d[2][k] ELSE default

\* Truth value of `if spans:`.
Truthy(v) ==
  CASE TypeOf(v) = "str"  -> Len(v[2]) > 0
    [] TypeOf(v) = "int"  -> v[2] /= 0
    [] TypeOf(v) = "bool" -> v[2]
    [] TypeOf(v) = "none" -> FALSE
    [] TypeOf(v) = "list" -> Len(v[2]) > 0
    [] TypeOf(v) = "dict" -> DOMAIN v[2] /= {}

\* Does v[0] succeed?  A truthy list or string has a first element; a dict
\* decoded from JSON has string keys only (KeyError); a number or a boolean
\* is not subscriptable (TypeError).
CanIndex(v) == TypeOf(v) \in {"list", "str"} /\ Len(v[2]) > 0

\* v[n] for a list or a string (1-based here, 0-based in Python).
Index(v, n) == IF TypeOf(v) = "list" THEN v[2][n] ELSE PyStr(<<v[2][n]>>)

\* str(n) for an integer.
RECURSIVE Decimal(_)
Decimal(n) ==
  IF n < 0 THEN <<45>> \o Decimal(-n)
  ELSE IF n < 10 THEN <<48 + n>>
  ELSE Decimal(n \div 10) \o <<48 + (n % 10)>>

\* The text an f-string substitutes for {v}: format(v, ""), i.e. str(v).
\* (Lists and dicts, whose repr is not modelled, do not occur in the fields
\* that are formatted by the inputs explored.)
Format(v) ==
  CASE TypeOf(v) = "str"  -> v[2]
    [] TypeOf(v) = "int"  -> Decimal(v[2])
    [] TypeOf(v) = "bool" -> IF v[2] THEN <<84, 114, 117, 101>>
                             ELSE <<70, 97, 108, 115, 101>>
    [] TypeOf(v) = "none" -> <<78, 111, 110, 101>>

-----------------------------------------------------------------------------
(* Order and sorting of strings.                                           *)

Range(xs) == {xs[k] : k \in DOMAIN xs}

Min(S) == CHOOSE x \in S : \A y \in S : x <= y

\* a <= b for Python strings: code point by code point, a proper prefix
\* being smaller.
StrLe(a, b) ==
  LET n == IF Len(a) <= Len(b) THEN Len(a) ELSE Len(b)
      D == {k \in 1..n : a[k] /= b[k]}
  IN  IF D = {} THEN Len(a) <= Len(b) ELSE a[Min(D)] < b[Min(D)]

\* xs without its element at position k.
RemoveAt(xs, k) == SubSeq(xs, 1, k - 1) \o SubSeq(xs, k + 1, Len(xs))

\* The list handed back as it came, the call of sorted lost.
SortedAsGiven(xs) == xs

\* sorted(xs): the elements of xs in ascending order, multiplicity kept.
RECURSIVE Sorted(_)
Sorted(xs) ==
  IF xs = <<>> THEN <<>>
  ELSE LET k == CHOOSE j \in DOMAIN xs : \A l \in DOMAIN xs : StrLe(xs[j], xs[l])
       IN  <<xs[k]>> \o Sorted(RemoveAt(xs, k))

\* set(xs): the distinct elements of the list.
PySet(xs) == Range(xs)

\* The orders in which a set may hand out its elements when iterated (string
\* hashing is randomised per process, so any order can occur).
IterOrders(S) ==
  {f \in [1..Cardinality(S) -> S] : \A j, k \in 1..Cardinality(S) : f[j] = f[k] => j = k}


-----------------------------------------------------------------------------
(* Lines 14-30: what one decoded value does to the collections.            *)

\* data.get('reason') == 'compiler-message'
ReasonMatches(data) == PyEq(Get(data, "reason", PyNone), PyStr(S_compiler_message))

\* The level test with the comparison against the two severities lost: any
\* string passes, and whatever is not "error" is routed to warnings.
LevelAcceptedAnyString(level) == TypeOf(level) = "str"

\* level in ('error', 'warning')
LevelAccepted(level) == PyEq(level, PyStr(S_error)) \/ PyEq(level, PyStr(S_warning))

\* The active span taken from the end of the list (spans[-1]).
ActiveSpanLast(spans) == Index(spans, Len(spans[2]))

\* span = spans[0]
ActiveSpan(spans) == Index(spans, 1)

\* span.get('file_name', 'unknown')
FileNameOf(span) == Get(span, "file_name", PyStr(S_unknown))

\* span.get('line_start', 0)
LineStartOf(span) == Get(span, "line_start", PyInt(0))

\* msg.get('message', '')
MessageOf(msg) == Get(msg, "message", PyStr(S_empty))

\* f"{level}|{file_name}:{line_start}|{message}"
FormatEntry(level, file_name, line_start, message) ==
  Format(level) \o <<124>> \o Format(file_name) \o <<58>> \o Format(line_start)
    \o <<124>> \o Format(message)

Raise(exc)            == <<"raise", exc>>
NoEntry               == <<"none">>
AppendTo(list, entry) == <<"append", list, entry>>

\* The body of the try block after json.loads, for the decoded value data:
\* the exception it raises, or the list it appends to and the entry, or
\* nothing.
Process(data) ==
  IF ~HasGet(data) THEN Raise("AttributeError")
  ELSE IF ~ReasonMatches(data) THEN NoEntry
  ELSE LET msg == Get(data, "message", EmptyDict) IN
    IF ~HasGet(msg) THEN Raise("AttributeError")
    ELSE LET level == Get(msg, "level", PyNone) IN
      IF ~LevelAccepted(level) THEN NoEntry
      ELSE LET spans == Get(msg, "spans", PyList(<<>>)) IN
        IF ~Truthy(spans) THEN NoEntry
        ELSE IF ~CanIndex(spans)
          THEN Raise(IF TypeOf(spans) = "dict" THEN "KeyError" ELSE "TypeError")
        ELSE LET span == ActiveSpan(spans) IN
          IF ~HasGet(span) THEN Raise("AttributeError")
          ELSE LET entry == FormatEntry(level, FileNameOf(span), LineStartOf(span),
                                        MessageOf(msg))
               IN  AppendTo(IF PyEq(level, PyStr(S_error)) THEN "errors" ELSE "warnings",
                            entry)

-----------------------------------------------------------------------------
(* Input lines.  A line is its surrounding whitespace (the newline and any  *)
(* blanks, counted) and the text between: nothing, text that is not JSON,   *)
(* or the text of a JSON value, held as the value it denotes.               *)

RawLine(ws, body) == [ws |-> ws, body |-> body]
NoText            == <<"empty">>
NotJson           == <<"garbage">>
JsonText(v)       == <<"json", v>>

\* line.strip()
Strip(line) == line.body

\* json.loads(text): the value, or JSONDecodeError.
JsonLoads(text) ==
  IF text[1] = "json" THEN [ok |-> TRUE, value |-> text[2]]
  ELSE [ok |-> FALSE, value |-> PyNone]

T_a    == <<97>>
T_b    == <<98>>
T_m    == <<109>>
T_note == <<110, 111, 116, 101>>

Span(file, line) == PyDict([file_name |-> file, line_start |-> line])

Diagnostic(level, text, spans) ==
  PyDict([reason  |-> PyStr(S_compiler_message),
          message |-> PyDict([level |-> PyStr(level), message |-> PyStr(text),
                              spans |-> spans])])

\* The lines inputs are built from.
Lines ==
  { RawLine(1, NoText),                            \* "\n"
    RawLine(3, NoText),                            \* "  \n"
    RawLine(1, NotJson),                           \* not json
    RawLine(1, JsonText(PyInt(5))),                \* 5
    RawLine(1, JsonText(PyList(<<>>))),            \* []
    RawLine(1, JsonText(PyDict([reason |-> PyStr(<<98>>)]))),
    RawLine(1, JsonText(PyDict([reason |-> PyStr(S_compiler_message)]))),
    RawLine(1, JsonText(PyDict([reason |-> PyStr(S_compiler_message),
                                message |-> PyStr(T_m)]))),
    RawLine(1, JsonText(Diagnostic(S_error, T_m,
                 PyList(<<Span(PyStr(T_a), PyInt(10)), Span(PyStr(T_b), PyInt(3))>>)))),
    RawLine(3, JsonText(Diagnostic(S_error, T_m,
                 PyList(<<Span(PyStr(T_a), PyInt(10))>>)))),
    RawLine(1, JsonText(Diagnostic(S_error, T_m,
                 PyList(<<Span(PyStr(T_a), PyInt(3))>>)))),
    RawLine(1, JsonText(PyDict([reason  |-> PyStr(S_compiler_message),
                                message |-> PyDict([level |-> PyStr(S_error),
                                                    spans |-> PyList(<<EmptyDict>>)])]))),
    RawLine(1, JsonText(Diagnostic(S_error, T_m, PyList(<<>>)))),
    RawLine(1, JsonText(Diagnostic(S_error, T_m, PyList(<<PyInt(5)>>)))),
    RawLine(1, JsonText(Diagnostic(T_note, T_m,
                 PyList(<<Span(PyStr(T_a), PyInt(3))>>)))),
    RawLine(1, JsonText(Diagnostic(S_warning, T_m,
                 PyList(<<Span(PyStr(T_b), PyInt(3))>>)))),
    RawLine(1, JsonText(Diagnostic(S_warning, T_m,
                 PyList(<<Span(PyNone, PyInt(3))>>)))) }

Inputs == UNION {[1..n -> Lines] : n \in 0..MaxLines}

-----------------------------------------------------------------------------
VARIABLES
  lines,      \* standard input, one element per line
  i,          \* position of the next line the for loop of line 8 hands out
  errors,     \* the list errors
  warnings,   \* the list warnings
  errSrc,     \* history: for each element of errors, the position of its line
  warnSrc,    \* history: the same for warnings
  pc,         \* where the program is
  it,         \* what is left of the list the running print loop iterates over
  out,        \* standard output, one element per line
  status      \* "running", or how the process exited: "success" (status 0)
              \* or "failure" (status 1, after an uncaught exception)

vars == <<lines, i, errors, warnings, errSrc, warnSrc, pc, it, out, status>>

Init ==
  /\ lines \in Inputs
  /\ i = 1
  /\ errors = <<>>
  /\ warnings = <<>>
  /\ errSrc = <<>>
  /\ warnSrc = <<>>
  /\ pc = "loop"
  /\ it = <<>>
  /\ out = <<>>
  /\ status = "running"

AtLine == pc = "loop" /\ i <= Len(lines)

Text    == Strip(lines[i])
Decoded == JsonLoads(Text)
Outcome == Process(Decoded.value)

\* An empty line ends the loop (break where the program has continue).
SkipBlankBreaks ==
  /\ AtLine
  /\ Text = NoText
  /\ i' = Len(lines) + 1
  /\ UNCHANGED <<lines, errors, warnings, errSrc, warnSrc, pc, it, out, status>>

\* Lines 9-11: the stripped line is empty, continue.
SkipBlank ==
  /\ AtLine
  /\ Text = NoText
  /\ i' = i + 1
  /\ UNCHANGED <<lines, errors, warnings, errSrc, warnSrc, pc, it, out, status>>

\* The except clause lost: JSONDecodeError ends the run like any other
\* exception.
SkipMalformedRaises ==
  /\ AtLine
  /\ Text /= NoText
  /\ ~Decoded.ok
  /\ pc' = "aborted"
  /\ status' = "failure"
  /\ UNCHANGED <<lines, i, errors, warnings, errSrc, warnSrc, it, out>>

\* Lines 13, 31-32: json.loads raises JSONDecodeError, which is passed over.
SkipMalformed ==
  /\ AtLine
  /\ Text /= NoText
  /\ ~Decoded.ok
  /\ i' = i + 1
  /\ UNCHANGED <<lines, errors, warnings, errSrc, warnSrc, pc, it, out, status>>

\* Lines 14-19: the record fails one of the tests and nothing is appended.
Discard ==
  /\ AtLine
  /\ Text /= NoText
  /\ Decoded.ok
  /\ Outcome = NoEntry
  /\ i' = i + 1
  /\ UNCHANGED <<lines, errors, warnings, errSrc, warnSrc, pc, it, out, status>>

\* Lines 14-28: errors.append(entry).
AppendError ==
  /\ AtLine
  /\ Text /= NoText
  /\ Decoded.ok
  /\ Outcome[1] = "append"
  /\ Outcome[2] = "errors"
  /\ errors' = Append(errors, Outcome[3])
  /\ errSrc' = Append(errSrc, i)
  /\ i' = i + 1
  /\ UNCHANGED <<lines, warnings, warnSrc, pc, it, out, status>>

\* Lines 14-30: warnings.append(entry).
AppendWarning ==
  /\ AtLine
  /\ Text /= NoText
  /\ Decoded.ok
  /\ Outcome[1] = "append"
  /\ Outcome[2] = "warnings"
  /\ warnings' = Append(warnings, Outcome[3])
  /\ warnSrc' = Append(warnSrc, i)
  /\ i' = i + 1
  /\ UNCHANGED <<lines, errors, errSrc, pc, it, out, status>>

\* Lines 14-23: an exception other than JSONDecodeError leaves the try
\* statement uncaught: the interpreter prints a traceback on standard error
\* and exits with status 1, standard output untouched.  i stays on the line
\* that raised.
Abort ==
  /\ AtLine
  /\ Text /= NoText
  /\ Decoded.ok
  /\ Outcome[1] = "raise"
  /\ pc' = "aborted"
  /\ status' = "failure"
  /\ UNCHANGED <<lines, i, errors, warnings, errSrc, warnSrc, it, out>>

\* Line 35, reached when the for loop of line 8 is exhausted.
PrintErrorsHeader ==
  /\ pc = "loop"
  /\ i > Len(lines)
  /\ out' = Append(out, ErrorsHeader)
  /\ pc' = "iter_errors"
  /\ UNCHANGED <<lines, i, errors, warnings, errSrc, warnSrc, it, status>>

\* sorted(errors), the call of set lost.
IterErrorsNoSet ==
  /\ pc = "iter_errors"
  /\ it' = Sorted(errors)
  /\ pc' = "each_error"
  /\ UNCHANGED <<lines, i, errors, warnings, errSrc, warnSrc, out, status>>

\* Line 36: sorted(set(errors)) is evaluated once.
IterErrors ==
  /\ pc = "iter_errors"
  /\ \E order \in IterOrders(PySet(errors)) : it' = Sorted(order)
  /\ pc' = "each_error"
  /\ UNCHANGED <<lines, i, errors, warnings, errSrc, warnSrc, out, status>>

\* Line 37: print(e).
PrintError ==
  /\ pc = "each_error"
  /\ it /= <<>>
  /\ out' = Append(out, Head(it))
  /\ it' = Tail(it)
  /\ UNCHANGED <<lines, i, errors, warnings, errSrc, warnSrc, pc, status>>

\* print("=== WARNINGS ==="), the leading newline lost.
PrintWarningsHeaderNoBlank ==
  /\ pc = "each_error"
  /\ it = <<>>
  /\ out' = Append(out, WarningsHeader)
  /\ pc' = "iter_warnings"
  /\ UNCHANGED <<lines, i, errors, warnings, errSrc, warnSrc, it, status>>

\* Line 39: print("\n=== WARNINGS ===") writes an empty line and the header.
PrintWarningsHeader ==
  /\ pc = "each_error"
  /\ it = <<>>
  /\ out' = out \o <<S_empty, WarningsHeader>>
  /\ pc' = "iter_warnings"
  /\ UNCHANGED <<lines, i, errors, warnings, errSrc, warnSrc, it, status>>

\* sorted(warnings), the call of set lost.
IterWarningsNoSet ==
  /\ pc = "iter_warnings"
  /\ it' = Sorted(warnings)
  /\ pc' = "each_warning"
  /\ UNCHANGED <<lines, i, errors, warnings, errSrc, warnSrc, out, status>>

\* Line 40: sorted(set(warnings)) is evaluated once.
IterWarnings ==
  /\ pc = "iter_warnings"
  /\ \E order \in IterOrders(PySet(warnings)) : it' = Sorted(order)
  /\ pc' = "each_warning"
  /\ UNCHANGED <<lines, i, errors, warnings, errSrc, warnSrc, out, status>>

\* Line 41: print(w).
PrintWarning ==
  /\ pc = "each_warning"
  /\ it /= <<>>
  /\ out' = Append(out, Head(it))
  /\ it' = Tail(it)
  /\ UNCHANGED <<lines, i, errors, warnings, errSrc, warnSrc, pc, status>>

\* The end of the script: the interpreter exits with status 0.
Exit ==
  /\ pc = "each_warning"
  /\ it = <<>>
  /\ pc' = "done"
  /\ status' = "success"
  /\ UNCHANGED <<lines, i, errors, warnings, errSrc, warnSrc, it, out>>

Next ==
  \/ SkipBlank
  \/ SkipMalformed
  \/ Discard
  \/ AppendError
  \/ AppendWarning
  \/ Abort
  \/ PrintErrorsHeader
  \/ IterErrors
  \/ PrintError
  \/ PrintWarningsHeader
  \/ IterWarnings
  \/ PrintWarning
  \/ Exit

Spec == Init /\ [][Next]_vars

-----------------------------------------------------------------------------
(* What the properties below read off the input and the output.            *)

\* Line n of the input holds a JSON value / an object / something that is
\* not JSON.
IsJsonLine(n)     == lines[n].body[1] = "json"
IsMappingLine(n)  == IsJsonLine(n) /\ lines[n].body[2][1] = "dict"
IsMalformedLine(n) == lines[n].body[1] = "garbage"

\* The fields of the object on line n, and of its message object.
RecordOn(n)  == lines[n].body[2][2]
MessageOn(n) == RecordOn(n).message[2]

\* The record on line n has reason "compiler-message", the given level and a
\* non-empty spans sequence.
Qualifies(n, level) ==
  /\ IsMappingLine(n)
  /\ "reason" \in DOMAIN RecordOn(n)
  /\ RecordOn(n).reason[1] = "str"
  /\ RecordOn(n).reason[2] = S_compiler_message
  /\ "message" \in DOMAIN RecordOn(n)
  /\ RecordOn(n).message[1] = "dict"
  /\ "level" \in DOMAIN MessageOn(n)
  /\ MessageOn(n).level[1] = "str"
  /\ MessageOn(n).level[2] = level
  /\ "spans" \in DOMAIN MessageOn(n)
  /\ MessageOn(n).spans[1] = "list"
  /\ Len(MessageOn(n).spans[2]) > 0

\* The lines consumed so far (an aborted run stays on the line that raised).
Consumed == 1..(i - 1)

Increasing(xs) == \A j, k \in DOMAIN xs : j < k => xs[j] < xs[k]

NoDuplicates(xs) == \A j, k \in DOMAIN xs : xs[j] = xs[k] => j = k

Count(xs, e) == Cardinality({k \in DOMAIN xs : xs[k] = e})

Ascending(xs) == \A k \in 1..(Len(xs) - 1) : StrLe(xs[k], xs[k + 1])

\* Standard output, cut at the warnings header: the lines printed under
\* each header.
HeaderPrinted == \E k \in DOMAIN out : out[k] = WarningsHeader
HeaderAt      == CHOOSE k \in DOMAIN out : out[k] = WarningsHeader
ErrorSection ==
  IF HeaderPrinted THEN SubSeq(out, 2, HeaderAt - 2) ELSE SubSeq(out, 2, Len(out))
WarningSection ==
  IF HeaderPrinted THEN SubSeq(out, HeaderAt + 1, Len(out)) ELSE <<>>

-----------------------------------------------------------------------------
\* C1: every entry held in errors comes from a consumed record with reason
\* "compiler-message", level "error" and a non-empty spans sequence, every
\* entry held in warnings from one with level "warning"; a record failing one
\* of the three conditions is the source of no entry.  (Each line is the
\* source of at most one entry: the sources increase.)
EntriesComeFromQualifyingRecords ==
  /\ Len(errSrc) = Len(errors)
  /\ Len(warnSrc) = Len(warnings)
  /\ Increasing(errSrc)
  /\ Increasing(warnSrc)
  /\ \A k \in DOMAIN errors : errSrc[k] \in Consumed /\ Qualifies(errSrc[k], S_error)
  /\ \A k \in DOMAIN warnings : warnSrc[k] \in Consumed /\ Qualifies(warnSrc[k], S_warning)
  /\ \A n \in Consumed :
       ~Qualifies(n, S_error) /\ ~Qualifies(n, S_warning)
         => n \notin Range(errSrc) \cup Range(warnSrc)

\* Both lists hold an entry and a decoded record that fails the conditions
\* has been consumed.
BothListsFilledPastARejectedRecord ==
  /\ errors /= <<>>
  /\ warnings /= <<>>
  /\ \E n \in Consumed :
       IsMappingLine(n) /\ ~Qualifies(n, S_error) /\ ~Qualifies(n, S_warning)

\* C2: a step that consumes a line that is not JSON leaves both lists (and
\* the output) as they are, raises nothing and moves on to the next line; and
\* a record consumed after such a line that qualifies and has a mapping as
\* its first span has its entry in a list.
MalformedLineIsSkipped ==
  /\ [][ AtLine /\ IsMalformedLine(i)
           => /\ errors' = errors
              /\ warnings' = warnings
              /\ out' = out
              /\ status' = "running"
              /\ pc' = "loop"
              /\ i' = i + 1 ]_vars
  /\ [](\A n \in Consumed :
          ( /\ \E j \in 1..(n - 1) : IsMalformedLine(j)
            /\ (Qualifies(n, S_error) \/ Qualifies(n, S_warning))
            /\ MessageOn(n).spans[2][1][1] = "dict" )
          => n \in Range(errSrc) \cup Range(warnSrc))

\* An entry is held whose record came after a line that is not JSON.
EntryAfterMalformedLine ==
  \E n \in Range(errSrc) \cup Range(warnSrc) : \E j \in 1..(n - 1) : IsMalformedLine(j)

\* C3: a line that decodes to a value that is not a mapping causes no
\* failure: the run is never aborted on such a line.
NonMappingValueCausesNoFailure ==
  ~(pc = "aborted" /\ IsJsonLine(i) /\ ~IsMappingLine(i))

\* C4, for the records it names: a decoded mapping record, whatever the types
\* of its fields, never aborts the run.
MappingRecordNeverAborts ==
  ~(pc = "aborted" /\ status = "failure" /\ IsMappingLine(i))

\* The entry the record on line n is to yield: the level, the file name and
\* the line of its first span, its message text, with the three defaults.
ExpectedEntry(n, level) ==
  LET first == MessageOn(n).spans[2][1][2]
      file  == IF "file_name" \in DOMAIN first
               THEN Format(first.file_name) ELSE S_unknown
      line  == IF "line_start" \in DOMAIN first
               THEN Format(first.line_start) ELSE <<48>>
      text  == IF "message" \in DOMAIN MessageOn(n)
               THEN Format(MessageOn(n).message) ELSE <<>>
  IN  level \o <<124>> \o file \o <<58>> \o line \o <<124>> \o text

\* C5: the entry of a record is level|file_name:line_start|message, file_name
\* and line_start taken from the first span only, "unknown" and 0 when the
\* span lacks them, and the message text empty when the message lacks it.
EntryIsBuiltFromFirstSpan ==
  /\ \A k \in DOMAIN errors : errors[k] = ExpectedEntry(errSrc[k], S_error)
  /\ \A k \in DOMAIN warnings : warnings[k] = ExpectedEntry(warnSrc[k], S_warning)

\* An entry is held that comes from a record with several spans, and one
\* from a record whose span and message lack the three fields.
EntriesOfManySpansAndOfDefaults ==
  /\ \E k \in DOMAIN errors : Len(MessageOn(errSrc[k]).spans[2]) > 1
  /\ \E k \in DOMAIN errors :
       /\ DOMAIN MessageOn(errSrc[k]).spans[2][1][2] = {}
       /\ "message" \notin DOMAIN MessageOn(errSrc[k])

\* C6: when the run is over, every distinct entry held in a list is printed
\* exactly once under its header, however many records yielded it, and a
\* section has as many lines as its list has distinct entries.
EachEntryPrintedOnce ==
  pc = "done" =>
    /\ \A e \in Range(errors) : Count(ErrorSection, e) = 1
    /\ Len(ErrorSection) = Cardinality(Range(errors))
    /\ \A e \in Range(warnings) : Count(WarningSection, e) = 1
    /\ Len(WarningSection) = Cardinality(Range(warnings))

\* The run is over and an entry was yielded twice, by two different records
\* that another line separates.
RepeatedEntryWasPrinted ==
  /\ pc = "done"
  /\ \E j, k \in DOMAIN errors :
       /\ errors[j] = errors[k]
       /\ errSrc[k] > errSrc[j] + 1
       /\ lines[errSrc[j]] /= lines[errSrc[k]]

\* C7: the lines printed under each header are in non-decreasing
\* lexicographic order: a <= b for any two consecutive lines a, b.
SectionsAreSorted == Ascending(ErrorSection) /\ Ascending(WarningSection)

\* Two entries that the input yielded in descending order have been printed
\* in a section.
DescendingInputWasPrinted ==
  /\ Len(ErrorSection) >= 2
  /\ \E j, k \in DOMAIN errors :
       j < k /\ errors[j] /= errors[k] /\ StrLe(errors[k], errors[j])

\* C8: nothing is printed before the last line is consumed; what is printed
\* is, in this order, the errors header, the error entries, an empty line and
\* the warnings header, the warning entries; and at the end both headers have
\* been printed exactly once and every entry is there.
OutputFollowsInput ==
  LET nE == Cardinality(Range(errors))
      nW == Cardinality(Range(warnings))
  IN  /\ out /= <<>> => i > Len(lines)
      /\ \A k \in DOMAIN out :
           /\ k = 1 => out[k] = ErrorsHeader
           /\ k \in 2..(nE + 1) => out[k] \in Range(errors)
           /\ k = nE + 2 => out[k] = S_empty
           /\ k = nE + 3 => out[k] = WarningsHeader
           /\ k > nE + 3 => out[k] \in Range(warnings)
      /\ pc = "done" =>
           /\ Len(out) = nE + nW + 3
           /\ Count(out, ErrorsHeader) = 1
           /\ Count(out, WarningsHeader) = 1
           /\ Range(errors) = {out[k] : k \in 2..(nE + 1)}
           /\ Range(warnings) = {out[k] : k \in (nE + 4)..Len(out)}

\* The run is over with entries in one section and none in the other.
PrintedWithAnEmptySection ==
  /\ pc = "done"
  /\ errors = <<>>
  /\ warnings /= <<>>

\* C9 as stated: while lines are consumed, neither list holds the same entry
\* twice.
ListsAreDuplicateFree ==
  pc = "loop" => NoDuplicates(errors) /\ NoDuplicates(warnings)

\* C9 as amended: the lists keep one element per record that yielded an entry
\* (so an entry yielded twice is held twice); it is the list a print loop
\* iterates over, and so each printed section, that never holds the same
\* entry twice.
PrintedListsAreDuplicateFree ==
  /\ Len(errors) = Cardinality(Range(errSrc))
  /\ Len(warnings) = Cardinality(Range(warnSrc))
  /\ pc \in {"each_error", "each_warning"} => NoDuplicates(it)
  /\ NoDuplicates(ErrorSection)
  /\ NoDuplicates(WarningSection)

\* The errors are about to be printed, the list errors holds an entry twice
\* and the list that will be printed holds it once.
DuplicateHeldButNotPending ==
  /\ pc = "each_error"
  /\ ~NoDuplicates(errors)
  /\ it /= <<>>
  /\ Len(it) < Len(errors)

\* What a line yields by itself, the set of the entries the lines of the
\* input yield for a list, and the one ascending enumeration of a set.
YieldOf(line) ==
  IF line.body[1] = "json" THEN Process(line.body[2]) ELSE NoEntry

EntrySet(list) ==
  {YieldOf(l)[3] : l \in {l \in Range(lines) :
                            YieldOf(l)[1] = "append" /\ YieldOf(l)[2] = list}}

AscendingEnumeration(S) ==
  CHOOSE f \in IterOrders(S) : \A j, k \in DOMAIN f : j < k => StrLe(f[j], f[k])

\* C10: what is printed is a function of the set of entries the lines of the
\* input yield, whatever their order and number: the two headers, each
\* followed by the ascending enumeration of the set of its entries.  (Empty
\* and malformed lines yield nothing, and a set has neither order nor
\* multiplicity, so inputs that are permutations of each other, or differ by
\* repeated, empty or malformed lines, print the same.)
OutputDependsOnEntrySetOnly ==
  pc = "done" =>
    out = <<ErrorsHeader>> \o AscendingEnumeration(EntrySet("errors"))
            \o <<S_empty, WarningsHeader>> \o AscendingEnumeration(EntrySet("warnings"))

\* The run is over on an input with a repeated yielding line, and with an
\* empty or malformed line before a yielding line.
PrintedFromRedundantInput ==
  /\ pc = "done"
  /\ \E j, k \in Range(errSrc) \cup Range(warnSrc) : j < k /\ lines[j] = lines[k]
  /\ \E n \in DOMAIN lines :
       /\ lines[n].body[1] \in {"empty", "garbage"}
       /\ \E k \in Range(errSrc) \cup Range(warnSrc) : n < k

=============================================================================
